---- MODULE Spec2Model ----
(***************************************************************************)
(* A model of notebook/model_factory_sample.py: the configuration-driven   *)
(* model factory (ModelFactory), its selection policy and the independent  *)
(* evaluate_regression_model comparison.                                   *)
(*                                                                         *)
(* Python values are records with a "kind" field (None is [kind |->        *)
(* "None"], a list is [kind |-> "list", items |-> <<...>>]).  A call ends  *)
(* either [status |-> "return", value |-> v] or [status |-> "raise",       *)
(* exc |-> chain], where chain is the sequence of exception types from the *)
(* raised exception down its `from e` causes to the original one; a        *)
(* HousingException also holds, as error, the type of the exception it was *)
(* built on.                                                               *)
(* Methods are operators from (self, arguments) to                         *)
(* [ret, self, log]: the result, the object after the call, and the calls  *)
(* made on the toolkit (fit) and the stages entered.                       *)
(***************************************************************************)
EXTENDS Integers, Sequences, FiniteSets, TLC

VARIABLES factory, call

vars == <<factory, call>>

(***************************************************************************)
(* Bounds of the model.                                                    *)
(***************************************************************************)
MaxDescriptors == 2

MaxModels == 3

MaxResults == 4

MaxEvalModels == 3

(***************************************************************************)
(* Values, results and exceptions.                                         *)
(***************************************************************************)
None == [kind |-> "None"]

ListOf(items) == [kind |-> "list", items |-> items]

Return(v) == [status |-> "return", value |-> v]

Raise(chain) == [status |-> "raise", exc |-> chain]

\* raise HousingException(e, sys) from e: the exception is built on e, its
\* first argument, and has e as its cause.
HousingException(r) ==
    [status |-> "raise", exc |-> <<"HousingException">> \o r.exc, error |-> Head(r.exc)]

\* raise HousingException(e, sys): built on e, with no cause.
HousingExceptionOf(r) ==
    [status |-> "raise", exc |-> <<"HousingException">>, error |-> Head(r.exc)]

\* try: ... except Exception as e: raise HousingException(e,sys) from e
TryExcept(r) == IF r.status = "raise" THEN HousingException(r) ELSE r

Outcome(ret, self, log) == [ret |-> ret, self |-> self, log |-> log]

\* F applied to the value of v, v evaluated once.
Bind(v, F(_)) == CHOOSE r \in {F(x) : x \in {v}} : TRUE

\* Statement sequencing: an exception raised by r leaves the enclosing block,
\* otherwise the block goes on with r's value.
Try(r, F(_)) == Bind(r, LAMBDA v : IF v.status = "raise" THEN v ELSE F(v.value))

\* The same for a method call, whose outcome carries the object and the log.
TryCall(out, F(_)) == Bind(out, LAMBDA o : IF o.ret.status = "raise" THEN o ELSE F(o))

\* An outcome with its result passed through an except clause.
Except(out) == Bind(out, LAMBDA o : Outcome(TryExcept(o.ret), o.self, o.log))

Event(ev, n) == [ev |-> ev, n |-> n]

\* All sequences over S of length at most n.
SeqUpTo(S, n) == UNION {[1..k -> S] : k \in 0..n}

MODEL_SELECTION_KEY == "model_selection"

MODULE_KEY == "module"

CLASS_KEY == "class"

PARAM_KEY == "params"

SEARCH_PARAM_GRID_KEY == "search_param_grid"

GRID_SEARCH_KEY == "grid_search"

(***************************************************************************)
(* The toolkit the module calls into: the importable modules and their     *)
(* classes, construction, and the search routine's fit.                    *)
(***************************************************************************)
Modules == {"sklearn.linear_model", "sklearn.ensemble", "sklearn.model_selection"}

ClassesOf(m) ==
    CASE m = "sklearn.linear_model" -> {"LinearRegression"}
      [] m = "sklearn.ensemble" -> {"RandomForestRegressor"}
      [] m = "sklearn.model_selection" -> {"GridSearchCV"}
      [] OTHER -> {}

EstimatorClasses == {"LinearRegression", "RandomForestRegressor"}

\* The hyperparameters an estimator class accepts in a search grid.
ValidParams(cls) ==
    CASE cls = "LinearRegression" -> {"fit_intercept"}
      [] cls = "RandomForestRegressor" -> {"n_estimators", "min_samples_leaf"}
      [] OTHER -> {}

\* model_obj_ref(): the estimators construct without arguments, the search
\* routine does not (estimator and param_grid are required).
NewModel(class_ref, id) ==
    IF class_ref.name \in EstimatorClasses
    THEN Return([kind |-> "instance", id |-> id, cls |-> class_ref.name, attrs |-> {},
                 fitted |-> FALSE])
    ELSE Raise(<<"TypeError">>)

\* setattr(instance_ref, key, value)
SetAttr(inst, key, value) ==
    [inst EXCEPT !.attrs = {p \in @ : p[1] # key} \cup {<<key, value>>}]

\* dict(x): a copy of a mapping; a scalar is not iterable.
Dict(x) == IF x.kind = "dict" THEN Return(x) ELSE Raise(<<"TypeError">>)

\* d[key] on a configuration mapping whose present keys are d.keys.
HasKey(d, key) == key \in d.keys

(***************************************************************************)
(* The namedtuples.                                                        *)
(***************************************************************************)
InitialisedModelDetail(model_serial_number, model, param_grid_search, model_name) ==
    [kind |-> "InitialisedModelDetail",
     model_serial_number |-> model_serial_number,
     model |-> model,
     param_grid_search |-> param_grid_search,
     model_name |-> model_name]

GridSearchedBestModel(model_serial_number, model, best_model, best_parameters, best_score) ==
    [kind |-> "GridSearchedBestModel",
     model_serial_number |-> model_serial_number,
     model |-> model,
     best_model |-> best_model,
     best_parameters |-> best_parameters,
     best_score |-> best_score]

(***************************************************************************)
(* ModelFactory: construction.                                             *)
(***************************************************************************)
\* with open(config_path) as yaml_file: config = yaml.safe_load(yaml_file)
read_params(doc) ==
    TryExcept(
        CASE doc.file = "missing" -> Raise(<<"FileNotFoundError">>)
          [] doc.file = "invalid_yaml" -> Raise(<<"YAMLError">>)
          [] doc.file = "empty" -> Return(None)
          [] OTHER -> Return([kind |-> "dict",
                              keys |-> doc.keys,
                              grid_search |-> doc.grid_search,
                              model_selection |-> doc.model_selection]))

\* config[key] at the top level of the loaded document; no try around it.
Subscript(config, key) ==
    IF config.kind # "dict" THEN Raise(<<"TypeError">>)
    ELSE IF ~HasKey(config, key) THEN Raise(<<"KeyError">>)
    ELSE Return(config)

\* self.config[GRID_SEARCH_KEY][MODULE_KEY], [CLASS_KEY], dict(...[PARAM_KEY])
GridSearchFields(config) ==
    LET gs == config.grid_search IN
    IF ~HasKey(gs, MODULE_KEY) \/ ~HasKey(gs, CLASS_KEY) \/ ~HasKey(gs, PARAM_KEY)
    THEN Raise(<<"KeyError">>)
    ELSE Dict(gs.params)

\* __init__, lines 159-166: nothing here is inside a try.
ModelFactoryInit(doc) ==
    Try(read_params(doc), LAMBDA config :
    Try(Subscript(config, MODEL_SELECTION_KEY), LAMBDA ms :
    Try(Subscript(config, GRID_SEARCH_KEY), LAMBDA gs :
    Try(GridSearchFields(config), LAMBDA grid_search_property_data :
    Return([kind |-> "ModelFactory",
            config |-> config,
            models_initialisation_config |-> ms.model_selection,
            initialised_model_list |-> None,
            grid_search_cv_module |-> gs.grid_search.module,
            grid_search_class_name |-> gs.grid_search.class,
            grid_search_property_data |-> grid_search_property_data,
            grid_searched_best_model_list |-> None])))))

(***************************************************************************)
(* ModelFactory: class resolution and property setting.                    *)
(***************************************************************************)
class_for_name(module_name, class_name) ==
    TryExcept(
        IF module_name \notin Modules THEN Raise(<<"ModuleNotFoundError">>)
        ELSE IF class_name \notin ClassesOf(module_name) THEN Raise(<<"AttributeError">>)
        ELSE Return([kind |-> "class", module |-> module_name, name |-> class_name]))

RECURSIVE SetItems(_, _, _)
\* for key,value in property_data.items(): setattr(instance_ref,key,value)
SetItems(instance_ref, items, i) ==
    IF i > Len(items) THEN instance_ref
    ELSE SetItems(SetAttr(instance_ref, items[i][1], items[i][2]), items, i + 1)

update_property_of_class(instance_ref, property_data) ==
    TryExcept(
        IF property_data.kind # "dict" THEN Raise(<<"Exception">>)
        ELSE Return(SetItems(instance_ref, property_data.items, 1)))

(***************************************************************************)
(* ModelFactory.get_initialised_model_list                                 *)
(***************************************************************************)
\* f"{module}.{class}"
ModelName(module_name, class_name) == module_name \o "." \o class_name

\* The keys of an insertion-ordered mapping held as a sequence of entries.
Keys(mapping) == [i \in 1..Len(mapping) |-> mapping[i].key]

\* mapping[key]
Lookup(mapping, key) ==
    mapping[CHOOSE i \in 1..Len(mapping) : mapping[i].key = key].value

\* Lines 208-223: one descriptor to its InitialisedModelDetail.
InitialiseModel(cfg, model_serial_number) ==
    IF ~HasKey(cfg, MODULE_KEY) \/ ~HasKey(cfg, CLASS_KEY) THEN Raise(<<"KeyError">>)
    ELSE
    Try(class_for_name(cfg.module, cfg.class), LAMBDA model_obj_ref :
    Try(NewModel(model_obj_ref, model_serial_number), LAMBDA created :
    Try(IF HasKey(cfg, PARAM_KEY)
        THEN Try(Dict(cfg.params), LAMBDA model_obj_property_data :
                 update_property_of_class(created, model_obj_property_data))
        ELSE Return(created), LAMBDA model :
    IF ~HasKey(cfg, SEARCH_PARAM_GRID_KEY) THEN Raise(<<"KeyError">>)
    ELSE Return(InitialisedModelDetail(model_serial_number,
                                       model,
                                       cfg.search_param_grid,
                                       ModelName(cfg.module, cfg.class))))))

\* The for statement of lines 207-228.  The assignment to
\* self.initialised_model_list and the return are statements of the loop
\* body, so the iteration over keys[i] always leaves the function; with no
\* key left the function falls off its end and returns None.
InitialiseFrom(self, keys, i, initialised_model_list) ==
    IF i > Len(keys) THEN Outcome(Return(None), self, <<>>)
    ELSE Bind(InitialiseModel(Lookup(self.models_initialisation_config, keys[i]), keys[i]),
              LAMBDA detail :
         IF detail.status = "raise" THEN Outcome(detail, self, <<>>)
         ELSE Bind([self EXCEPT !.initialised_model_list =
                                    ListOf(Append(initialised_model_list, detail.value))],
                   LAMBDA self2 :
              Outcome(Return(self2.initialised_model_list), self2, <<>>)))

get_initialised_model_list(self) ==
    Except(InitialiseFrom(self, Keys(self.models_initialisation_config), 1, <<>>))

(***************************************************************************)
(* Configuration documents the factory is constructed from.                *)
(***************************************************************************)
NoParams == [kind |-> "dict", items |-> <<>>]

Grid(name) == [kind |-> "dict", name |-> name]

Descriptor(keys, module, class, params, grid) ==
    [keys |-> keys, module |-> module, class |-> class,
     params |-> params, search_param_grid |-> grid]

AllDescriptorKeys == {MODULE_KEY, CLASS_KEY, PARAM_KEY, SEARCH_PARAM_GRID_KEY}

LinearDescriptor ==
    Descriptor(AllDescriptorKeys \ {PARAM_KEY}, "sklearn.linear_model", "LinearRegression",
               NoParams, Grid("fit_intercept"))

ForestDescriptor ==
    Descriptor(AllDescriptorKeys, "sklearn.ensemble", "RandomForestRegressor",
               [kind |-> "dict", items |-> << <<"n_estimators", 10>> >>],
               Grid("min_samples_leaf"))

\* A grid naming a parameter the estimator does not have: fit rejects it.
BadGridDescriptor ==
    Descriptor(AllDescriptorKeys \ {PARAM_KEY}, "sklearn.linear_model", "LinearRegression",
               NoParams, Grid("n_estimators"))

UnknownModuleDescriptor ==
    Descriptor(AllDescriptorKeys \ {PARAM_KEY}, "module_of_model", "ModelClassName",
               NoParams, Grid("param_name"))

ScalarParamsDescriptor ==
    Descriptor(AllDescriptorKeys, "sklearn.linear_model", "LinearRegression",
               [kind |-> "scalar", items |-> <<>>], Grid("fit_intercept"))

NoGridDescriptor ==
    Descriptor(AllDescriptorKeys \ {SEARCH_PARAM_GRID_KEY}, "sklearn.ensemble",
               "RandomForestRegressor", NoParams, Grid("min_samples_leaf"))

GoodDescriptors == {LinearDescriptor, ForestDescriptor, BadGridDescriptor}

Descriptors ==
    GoodDescriptors \cup {UnknownModuleDescriptor, ScalarParamsDescriptor, NoGridDescriptor}

\* The i-th key of the model_selection mapping ("module_0", "module_1", ...).
SerialOf(i) == i - 1

ModelSelection(descs) == [i \in 1..Len(descs) |-> [key |-> SerialOf(i), value |-> descs[i]]]

GridSearchSpec(keys, class) ==
    [keys |-> keys, module |-> "sklearn.model_selection", class |-> class,
     params |-> [kind |-> "dict", items |-> << <<"cv", 3>>, <<"verbose", 1>> >>]]

GridSearchKeys == {MODULE_KEY, CLASS_KEY, PARAM_KEY}

GridSearchCV == GridSearchSpec(GridSearchKeys, "GridSearchCV")

GridSearchSpecs ==
    {GridSearchCV,
     GridSearchSpec(GridSearchKeys, "GridSearch"),
     GridSearchSpec(GridSearchKeys \ {PARAM_KEY}, "GridSearchCV")}

\* What config_path leads to: no file, a file that is not YAML, an empty
\* file, or a mapping; keys tells which of its two sections are present.
Document(file, keys, gs, descs) ==
    [file |-> file, keys |-> keys, grid_search |-> gs, model_selection |-> ModelSelection(descs)]

TopLevelKeys == {GRID_SEARCH_KEY, MODEL_SELECTION_KEY}

Documents ==
    {Document("mapping", TopLevelKeys, gs, descs) :
        gs \in GridSearchSpecs, descs \in SeqUpTo(Descriptors, MaxDescriptors)}
    \cup {Document(file, TopLevelKeys, GridSearchCV, <<>>) :
             file \in {"missing", "invalid_yaml", "empty"}}
    \cup {Document("mapping", TopLevelKeys \ {k}, GridSearchCV, <<LinearDescriptor>>) :
             k \in TopLevelKeys}

(***************************************************************************)
(* ModelFactory: the grid search runner.  The training data X, y are held  *)
(* as what the toolkit computes from them: the cross-validated score each  *)
(* estimator class attains, in hundredths.                                 *)
(***************************************************************************)
\* grid_search_cv_ref(estimator=..., param_grid=...): only the search routine
\* takes these keywords.
NewSearch(class_ref, estimator, param_grid) ==
    IF class_ref.name = "GridSearchCV"
    THEN Return([kind |-> "search", estimator |-> estimator, param_grid |-> param_grid,
                 attrs |-> {}])
    ELSE Raise(<<"TypeError">>)

\* grid_search_cv.fit(X, y): rejects a grid naming a parameter the estimator
\* lacks; otherwise refits a clone of the estimator with the best parameters.
Fit(grid_search_cv, data) ==
    LET est == grid_search_cv.estimator
        grid == grid_search_cv.param_grid
    IN IF grid.name \notin ValidParams(est.cls) THEN Raise(<<"ValueError">>)
       ELSE Return([best_estimator_ |-> [SetAttr(est, grid.name, 1) EXCEPT !.fitted = TRUE],
                    best_params_ |-> [kind |-> "dict", items |-> << <<grid.name, 1>> >>],
                    best_score_ |-> data[est.cls]])

execute_grid_search_operation(self, initialized_model, data) ==
    Except(
    Bind(Try(class_for_name(self.grid_search_cv_module, self.grid_search_class_name),
             LAMBDA grid_search_cv_ref :
         Try(NewSearch(grid_search_cv_ref, initialized_model.model,
                       initialized_model.param_grid_search), LAMBDA created :
         update_property_of_class(created, self.grid_search_property_data))),
         LAMBDA grid_search_cv :
    IF grid_search_cv.status = "raise" THEN Outcome(grid_search_cv, self, <<>>)
    ELSE Bind(Fit(grid_search_cv.value, data), LAMBDA fit :
         Outcome(IF fit.status = "raise" THEN fit
                 ELSE Return(GridSearchedBestModel(initialized_model.model_serial_number,
                                                   initialized_model.model,
                                                   fit.value.best_estimator_,
                                                   fit.value.best_params_,
                                                   fit.value.best_score_)),
                 self,
                 <<Event("fit", initialized_model.model_serial_number)>>))))

\* Lines 284-289: the result of execute_grid_search_operation is not
\* returned, so a successful call returns None.
initiate_best_parameter_search_for_initialised_model(self, initialised_model, data) ==
    Except(
    TryCall(execute_grid_search_operation(self, initialised_model, data), LAMBDA out :
    Outcome(Return(None), out.self, out.log)))

RECURSIVE SearchFromSkipping(_, _, _, _, _)
\* SearchFrom with a failed search skipped instead of ending the batch.
SearchFromSkipping(self, items, i, data, log) ==
    IF i > Len(items) THEN Outcome(Return(self.grid_searched_best_model_list), self, log)
    ELSE Bind(initiate_best_parameter_search_for_initialised_model(self, items[i], data),
              LAMBDA out :
         IF out.ret.status = "raise"
         THEN SearchFromSkipping(out.self, items, i + 1, data, log \o out.log)
         ELSE Bind([out.self EXCEPT !.grid_searched_best_model_list =
                                        ListOf(Append(@.items, out.ret.value))],
                   LAMBDA self2 :
              SearchFromSkipping(self2, items, i + 1, data, log \o out.log)))

RECURSIVE SearchFrom(_, _, _, _, _)
\* The for statement of lines 296-302 from the i-th entry on; self holds the
\* list appended to.
SearchFrom(self, items, i, data, log) ==
    IF i > Len(items) THEN Outcome(Return(self.grid_searched_best_model_list), self, log)
    ELSE Bind(initiate_best_parameter_search_for_initialised_model(self, items[i], data),
              LAMBDA out :
         IF out.ret.status = "raise" THEN Outcome(out.ret, out.self, log \o out.log)
         ELSE Bind([out.self EXCEPT !.grid_searched_best_model_list =
                                        ListOf(Append(@.items, out.ret.value))],
                   LAMBDA self2 :
              SearchFrom(self2, items, i + 1, data, log \o out.log)))

initiate_best_parameter_search_for_initialised_models(self, initialised_model_list, data) ==
    Except(
    Bind([self EXCEPT !.grid_searched_best_model_list = ListOf(<<>>)], LAMBDA self2 :
    IF initialised_model_list.kind # "list"
    THEN Outcome(Raise(<<"TypeError">>), self2, <<>>)
    ELSE SearchFrom(self2, initialised_model_list.items, 1, data, <<>>)))

RECURSIVE DetailFrom(_, _, _)
DetailFrom(model_details, model_serial_number, i) ==
    IF i > Len(model_details) THEN Return(None)
    ELSE IF model_details[i].model_serial_number = model_serial_number
         THEN Return(model_details[i])
         ELSE DetailFrom(model_details, model_serial_number, i + 1)

get_model_detail(model_details, model_serial_number) ==
    TryExcept(DetailFrom(model_details, model_serial_number, 1))

(***************************************************************************)
(* ModelFactory: the selection policy.                                     *)
(***************************************************************************)
\* The for statement of lines 324-334 from the i-th result on.  The check of
\* best_model and the return are statements of the loop body, so the
\* iteration over the i-th result always leaves the function; with no
\* result left the function falls off its end and returns None.
SelectFrom(results, i, base_accuracy, best_model) ==
    IF i > Len(results) THEN Return(None)
    ELSE IF results[i].kind = "None" THEN Raise(<<"AttributeError">>)
    ELSE Bind(IF base_accuracy < results[i].best_score THEN results[i] ELSE best_model,
              LAMBDA best_model2 :
         IF best_model2.kind = "None" THEN Raise(<<"Exception">>)
         ELSE Return(best_model2))

get_best_model_from_grid_searched_best_model_list(grid_searched_best_model_list, base_accuracy) ==
    TryExcept(
        IF grid_searched_best_model_list.kind # "list" THEN Raise(<<"TypeError">>)
        ELSE SelectFrom(grid_searched_best_model_list.items, 1, base_accuracy, None))

(***************************************************************************)
(* ModelFactory.get_best_model                                             *)
(***************************************************************************)
\* A stage of get_best_model entered after the stages logged so far.
Stage(name, log, out) ==
    Bind(out, LAMBDA o : Outcome(o.ret, o.self, log \o <<Event(name, 0)>> \o o.log))

get_best_model(self, data, base_accuracy) ==
    Except(
    TryCall(Stage("get_initialised_model_list", <<>>, get_initialised_model_list(self)),
            LAMBDA init :
    TryCall(Stage("initiate_best_parameter_search_for_initialised_models", init.log,
                  initiate_best_parameter_search_for_initialised_models(
                      init.self, init.ret.value, data)),
            LAMBDA search :
    Stage("get_best_model_from_grid_searched_best_model_list", search.log,
          Outcome(get_best_model_from_grid_searched_best_model_list(
                      search.ret.value, base_accuracy),
                  search.self, <<>>)))))

(***************************************************************************)
(* evaluate_regression_model.  The call of lines 138-145 names the keyword *)
(* model_accuracy twice, which Python rejects when it compiles the source: *)
(* the def statement of lines 81-154 is never executed and every use of    *)
(* the function ends with the SyntaxError, whatever the arguments.  No     *)
(* statement of the body runs, the try of line 98 included, so the error   *)
(* is not wrapped.                                                         *)
(***************************************************************************)
Regressor(id, name, fitted, train_acc, test_acc, train_rmse, test_rmse) ==
    [kind |-> "instance", id |-> id, name |-> name, fitted |-> fitted,
     train_acc |-> train_acc, test_acc |-> test_acc,
     train_rmse |-> train_rmse, test_rmse |-> test_rmse]

evaluate_regression_model(model_list, base_accuracy) == Raise(<<"SyntaxError">>)

(***************************************************************************)
(* get_sample_model_config_yaml_file.                                      *)
(***************************************************************************)
\* os.makedirs(export_dir, exist_ok=True) on a path that is a directory or
\* can be made one, that is an existing file, or that cannot be created.
MakeDirs(export_dir) ==
    CASE export_dir.at = "file" -> Raise(<<"FileExistsError">>)
      [] export_dir.at = "uncreatable" -> Raise(<<"FileNotFoundError">>)
      [] OTHER -> Return(None)

\* The except clause of lines 75-76 raises without "from e".
get_sample_model_config_yaml_file(export_dir) ==
    Bind(MakeDirs(export_dir), LAMBDA made :
        IF made.status = "raise" THEN HousingExceptionOf(made)
        ELSE Return([kind |-> "path", dir |-> export_dir.name, file |-> "model.yaml"]))

(***************************************************************************)
(* Inputs.                                                                 *)
(***************************************************************************)
Scores == {50, 70, 90}

Datasets == [EstimatorClasses -> Scores]

BaseAccuracies == {60, 80}

\* Details as a correct initialisation of GoodDescriptors yields them, the
\* i-th under the i-th serial number.
DetailOf(desc, i) == InitialiseModel(desc, SerialOf(i)).value

DetailLists ==
    {[i \in 1..Len(descs) |-> DetailOf(descs[i], i)] :
        descs \in SeqUpTo(GoodDescriptors, MaxModels)}

SelectScores == {50, 65, 70, 90}

ResultOf(score, i) ==
    LET model == NewModel([name |-> "LinearRegression"], SerialOf(i)).value IN
    GridSearchedBestModel(SerialOf(i), model, [model EXCEPT !.fitted = TRUE],
                          NoParams, score)

ResultLists ==
    {[i \in 1..Len(scores) |-> ResultOf(scores[i], i)] :
        scores \in SeqUpTo(SelectScores, MaxResults)}

SelectBases == {60}

Regressors ==
    {Regressor(1, "LinearRegression()", TRUE, 24, 24, 5, 5),
     Regressor(2, "RandomForestRegressor()", TRUE, 29, 28, 3, 4),
     Regressor(3, "DecisionTreeRegressor()", TRUE, 30, 26, 2, 6),
     Regressor(4, "Ridge()", TRUE, 20, 19, 7, 8),
     Regressor(5, "Lasso()", FALSE, 24, 24, 5, 5)}

RegressorLists == SeqUpTo(Regressors, MaxEvalModels)

\* Accuracies are in units of 1/AccDen.
AccDen == 2 ^ 5

EvalBases == {19, 26}

ExportDirs ==
    {[name |-> "config", at |-> "directory"],
     [name |-> "model.cfg", at |-> "file"],
     [name |-> "/proc/x", at |-> "uncreatable"]}

(***************************************************************************)
(* The state: the factory object (None before a successful construction)   *)
(* and the last call made: the operation, its arguments, how it ended and  *)
(* the toolkit calls and stages it went through.                           *)
(***************************************************************************)
Call(op, args, ret, log) == [op |-> op, args |-> args, ret |-> ret, log |-> log]

NoCall == Call("none", None, Return(None), <<>>)

Init ==
    /\ factory = None
    /\ call = NoCall

\* factory = ModelFactory(model_config_path)
Construct(doc) ==
    /\ factory.kind = "None"
    /\ \E r \in {ModelFactoryInit(doc)} :
       /\ factory' = IF r.status = "return" THEN r.value ELSE factory
       /\ call' = Call("__init__", [doc |-> doc], IF r.status = "return" THEN Return(None) ELSE r, <<>>)

GetInitialisedModelList ==
    /\ factory.kind = "ModelFactory"
    /\ \E out \in {get_initialised_model_list(factory)} :
       /\ factory' = out.self
       /\ call' = Call("get_initialised_model_list", None, out.ret, out.log)

GetBestModel(data, base_accuracy) ==
    /\ factory.kind = "ModelFactory"
    /\ \E out \in {get_best_model(factory, data, base_accuracy)} :
       /\ factory' = out.self
       /\ call' = Call("get_best_model", [data |-> data, base_accuracy |-> base_accuracy],
                       out.ret, out.log)

GetSampleModelConfigYamlFile(export_dir) ==
    /\ call' = Call("get_sample_model_config_yaml_file", [export_dir |-> export_dir],
                    get_sample_model_config_yaml_file(export_dir), <<>>)
    /\ UNCHANGED factory

Next ==
    \/ \E doc \in Documents : Construct(doc)
    \/ GetInitialisedModelList
    \/ \E data \in Datasets, base_accuracy \in BaseAccuracies : GetBestModel(data, base_accuracy)
    \/ \E export_dir \in ExportDirs : GetSampleModelConfigYamlFile(export_dir)

Spec == Init /\ [][Next]_vars

(***************************************************************************)
(* The grid search runner, on a factory constructed from a document with a *)
(* readable grid_search section.  A behaviour makes one call: no operation *)
(* of the runner reads what an earlier call left in the factory (the batch *)
(* search resets grid_searched_best_model_list on entry).                  *)
(***************************************************************************)
SearchFactories ==
    {ModelFactoryInit(Document("mapping", TopLevelKeys, gs, <<>>)).value :
        gs \in {g \in GridSearchSpecs : HasKey(g, PARAM_KEY)}}

InitSearch ==
    /\ factory \in SearchFactories
    /\ call = NoCall

ExecuteGridSearchOperation(detail, data) ==
    /\ call.op = "none"
    /\ \E out \in {execute_grid_search_operation(factory, detail, data)} :
       /\ factory' = out.self
       /\ call' = Call("execute_grid_search_operation", [detail |-> detail, data |-> data],
                       out.ret, out.log)

InitiateSearchForModel(detail, data) ==
    /\ call.op = "none"
    /\ \E out \in {initiate_best_parameter_search_for_initialised_model(factory, detail, data)} :
       /\ factory' = out.self
       /\ call' = Call("initiate_best_parameter_search_for_initialised_model",
                       [detail |-> detail, data |-> data], out.ret, out.log)

InitiateSearchForModels(details, data) ==
    /\ call.op = "none"
    /\ \E out \in {initiate_best_parameter_search_for_initialised_models(
                       factory, ListOf(details), data)} :
       /\ factory' = out.self
       /\ call' = Call("initiate_best_parameter_search_for_initialised_models",
                       [details |-> details, data |-> data], out.ret, out.log)

GetModelDetail(details, model_serial_number) ==
    /\ call.op = "none"
    /\ call' = Call("get_model_detail",
                    [details |-> details, model_serial_number |-> model_serial_number],
                    get_model_detail(details, model_serial_number), <<>>)
    /\ UNCHANGED factory

NextSearch ==
    \/ \E detail \in {DetailOf(d, 1) : d \in GoodDescriptors}, data \in Datasets :
           \/ ExecuteGridSearchOperation(detail, data)
           \/ InitiateSearchForModel(detail, data)
    \/ \E details \in DetailLists, data \in Datasets : InitiateSearchForModels(details, data)
    \/ \E details \in DetailLists, n \in 0..MaxModels : GetModelDetail(details, n)

SpecSearch == InitSearch /\ [][NextSearch]_vars

(***************************************************************************)
(* The selection policy and the evaluation, which use no factory: one call *)
(* on each input.                                                          *)
(***************************************************************************)
SelectBest(results, base_accuracy) ==
    /\ call.op = "none"
    /\ call' = Call("get_best_model_from_grid_searched_best_model_list",
                    [results |-> results, base_accuracy |-> base_accuracy],
                    get_best_model_from_grid_searched_best_model_list(ListOf(results),
                                                                      base_accuracy),
                    <<>>)
    /\ UNCHANGED factory

NextSelect == \E results \in ResultLists, base_accuracy \in SelectBases :
                  SelectBest(results, base_accuracy)

SpecSelect == Init /\ [][NextSelect]_vars

EvaluateRegressionModel(model_list, base_accuracy) ==
    /\ call.op = "none"
    /\ call' = Call("evaluate_regression_model",
                    [model_list |-> model_list, base_accuracy |-> base_accuracy],
                    evaluate_regression_model(model_list, base_accuracy), <<>>)
    /\ UNCHANGED factory

NextEvaluate == \E model_list \in RegressorLists, base_accuracy \in EvalBases :
                    EvaluateRegressionModel(model_list, base_accuracy)

SpecEvaluate == Init /\ [][NextEvaluate]_vars

(***************************************************************************)
(* What the claims speak of.                                               *)
(***************************************************************************)
Returned == call.ret.status = "return"

Raised == call.ret.status = "raise"

\* The call raised the domain exception, built on the original error.
RaisedHousingException ==
    /\ Raised
    /\ Head(call.ret.exc) = "HousingException"
    /\ "error" \in DOMAIN call.ret

\* A descriptor the instantiator accepts: a resolvable estimator class, a
\* mapping as params when params are given, and a search grid.
ValidDescriptor(d) ==
    /\ {MODULE_KEY, CLASS_KEY, SEARCH_PARAM_GRID_KEY} \subseteq d.keys
    /\ d.module \in Modules
    /\ d.class \in ClassesOf(d.module) \cap EstimatorClasses
    /\ PARAM_KEY \in d.keys => d.params.kind = "dict"

ValidConfiguration(self) ==
    \A i \in 1..Len(self.models_initialisation_config) :
        ValidDescriptor(self.models_initialisation_config[i].value)

\* The search routine is resolvable and accepts the descriptor's grid.
SearchableDescriptor(self, d) ==
    /\ self.grid_search_cv_module = "sklearn.model_selection"
    /\ self.grid_search_class_name = "GridSearchCV"
    /\ d.search_param_grid.name \in ValidParams(d.class)

\* The serial numbers fit was called on, in call order.
Fitted(log) == SelectSeq(log, LAMBDA e : e.ev = "fit")

FittedSerials(log) == [i \in 1..Len(Fitted(log)) |-> Fitted(log)[i].n]

Stages(log) == SelectSeq(log, LAMBDA e : e.ev # "fit")

StageNames(log) == [i \in 1..Len(Stages(log)) |-> Stages(log)[i].ev]

IsPrefix(s, t) == Len(s) <= Len(t) /\ \A i \in 1..Len(s) : s[i] = t[i]

(***************************************************************************)
(* C1.  get_initialised_model_list on a valid configuration of N           *)
(* descriptors returns N details, one per descriptor in configuration      *)
(* order, each with its descriptor's serial number (all distinct) and the  *)
(* display name module.class.                                              *)
(***************************************************************************)
C1_OneDetailPerDescriptor ==
    (call.op = "get_initialised_model_list" /\ ValidConfiguration(factory)) =>
        LET config == factory.models_initialisation_config IN
        /\ Returned
        /\ call.ret.value.kind = "list"
        /\ Len(call.ret.value.items) = Len(config)
        /\ \A i \in 1..Len(config) :
              LET detail == call.ret.value.items[i] IN
              /\ detail.kind = "InitialisedModelDetail"
              /\ detail.model_serial_number = config[i].key
              /\ detail.model_name = config[i].value.module \o "." \o config[i].value.class
              /\ detail.model_name # ""
        /\ \A i, j \in 1..Len(config) :
              i # j => call.ret.value.items[i].model_serial_number
                         # call.ret.value.items[j].model_serial_number

(***************************************************************************)
(* C2.  The selection scans the whole result sequence with a threshold     *)
(* that starts at base_accuracy and is raised to every score strictly      *)
(* above it, and returns the last result that so qualified.                *)
(***************************************************************************)
RECURSIVE LastAbove(_, _, _, _)
\* The position of the last result of results[i..] to exceed the running
\* threshold, or last when there is none.
LastAbove(results, i, threshold, last) ==
    IF i > Len(results) THEN last
    ELSE IF threshold < results[i].best_score
         THEN LastAbove(results, i + 1, results[i].best_score, i)
         ELSE LastAbove(results, i + 1, threshold, last)

IsSelection == call.op = "get_best_model_from_grid_searched_best_model_list"

\* C2: when some result exceeds the running threshold, the selection returns
\* the last result that did.
C2_ReturnsLastQualifying ==
    IsSelection =>
        LET last == LastAbove(call.args.results, 1, call.args.base_accuracy, 0) IN
        last # 0 => call.ret = Return(call.args.results[last])

(***************************************************************************)
(* C3.  The selection fails with the no-acceptable-model error exactly     *)
(* when no result of the sequence, the empty one included, has a score     *)
(* strictly above base_accuracy.                                           *)
(***************************************************************************)
NoneAboveFloor ==
    \A i \in 1..Len(call.args.results) :
        ~(call.args.base_accuracy < call.args.results[i].best_score)

\* C3: the selection raises the no-acceptable-model error exactly when no
\* score of the sequence is strictly above base_accuracy.
C3_FailsIffNoneAboveFloor ==
    IsSelection =>
        (call.ret = HousingException(Raise(<<"Exception">>)) <=> NoneAboveFloor)

(***************************************************************************)
(* C10.  A result the selection returns has a score strictly above         *)
(* base_accuracy, no result of the sequence has a greater score, and it is *)
(* the earliest result with that score.                                    *)
(***************************************************************************)
C10_ReturnsEarliestMaximum ==
    (IsSelection /\ Returned /\ call.ret.value.kind # "None") =>
        /\ call.args.base_accuracy < call.ret.value.best_score
        /\ \A i \in 1..Len(call.args.results) :
              call.args.results[i].best_score <= call.ret.value.best_score
        /\ \E i \in 1..Len(call.args.results) :
              /\ call.args.results[i] = call.ret.value
              /\ \A j \in 1..(i - 1) :
                    call.args.results[j].best_score < call.ret.value.best_score

(***************************************************************************)
(* C4.  When every search succeeds, the batch search over M details        *)
(* returns M results in input order, the i-th carrying the serial number   *)
(* and model instance of the i-th detail and the best model, parameters    *)
(* and score of its search; no element is None.                            *)
(***************************************************************************)
IsBatchSearch == call.op = "initiate_best_parameter_search_for_initialised_models"

\* The search of one detail on the call's data, as the runner performs it.
SearchOf(detail) == execute_grid_search_operation(factory, detail, call.args.data).ret

\* C4: when every search succeeds the batch returns one complete result per
\* detail, in input order.
C4_OneResultPerDetail ==
    (IsBatchSearch
     /\ \A i \in 1..Len(call.args.details) :
           SearchOf(call.args.details[i]).status = "return") =>
        /\ Returned
        /\ call.ret.value.kind = "list"
        /\ Len(call.ret.value.items) = Len(call.args.details)
        /\ \A i \in 1..Len(call.args.details) :
              LET result == call.ret.value.items[i]
                  detail == call.args.details[i]
              IN /\ result.kind = "GridSearchedBestModel"
                 /\ result.model_serial_number = detail.model_serial_number
                 /\ result.model = detail.model
                 /\ result = SearchOf(detail).value
                 /\ result.best_score = call.args.data[detail.model.cls]

(***************************************************************************)
(* C8.  When the search of the k-th detail is the first to fail, the batch *)
(* search raises the domain exception and returns no sequence, no detail   *)
(* after the k-th is searched, and no search is made twice.                *)
(***************************************************************************)
FirstFailure(k) ==
    /\ k \in 1..Len(call.args.details)
    /\ SearchOf(call.args.details[k]).status = "raise"
    /\ \A j \in 1..(k - 1) : SearchOf(call.args.details[j]).status = "return"

SerialsUpTo(k) == [j \in 1..k |-> call.args.details[j].model_serial_number]

\* C8: the first failing search ends the batch with the domain exception;
\* fit is called on the details up to the failing one only, once each.
C8_FailureAbortsBatch ==
    IsBatchSearch =>
        \A k \in 1..Len(call.args.details) :
            FirstFailure(k) =>
                /\ RaisedHousingException
                /\ IsPrefix(FittedSerials(call.log), SerialsUpTo(k))
                /\ Len(FittedSerials(call.log)) >= k - 1

\* C8's case: the second of three searches fails after fit was called on it,
\* and the third would have succeeded.
C8_Witness ==
    /\ IsBatchSearch
    /\ Len(call.args.details) = 3
    /\ FirstFailure(2)
    /\ SearchOf(call.args.details[3]).status = "return"
    /\ FittedSerials(call.log) = SerialsUpTo(2)
    /\ Raised

(***************************************************************************)
(* C5.  get_best_model goes through initialisation, the search of every    *)
(* initialised model and the selection in this order; when the             *)
(* configuration has a descriptor, every stage succeeds and some           *)
(* candidate's score is strictly above base_accuracy, it returns a result  *)
(* whose score is strictly above base_accuracy; otherwise it raises.       *)
(***************************************************************************)
StageOrder ==
    <<"get_initialised_model_list",
      "initiate_best_parameter_search_for_initialised_models",
      "get_best_model_from_grid_searched_best_model_list">>

EveryStageSucceeds ==
    LET config == factory.models_initialisation_config IN
    /\ Len(config) >= 1
    /\ ValidConfiguration(factory)
    /\ \A i \in 1..Len(config) : SearchableDescriptor(factory, config[i].value)
    /\ \E i \in 1..Len(config) :
          call.args.base_accuracy < call.args.data[config[i].value.class]

\* C5: the stages are entered in order; get_best_model returns a result
\* scoring above base_accuracy when every stage can succeed, and raises
\* otherwise.
C5_GetBestModel ==
    call.op = "get_best_model" =>
        /\ IsPrefix(StageNames(call.log), StageOrder)
        /\ IF EveryStageSucceeds
           THEN /\ Returned
                /\ call.ret.value.kind = "GridSearchedBestModel"
                /\ call.args.base_accuracy < call.ret.value.best_score
           ELSE Raised

(***************************************************************************)
(* C7.  Every failure inside an operation of the module reaches the caller *)
(* as the domain exception carrying its cause.                             *)
(***************************************************************************)
C7_FailuresAreWrapped == Raised => RaisedHousingException

(***************************************************************************)
(* C6.  The evaluation goes through the models in order with a floor that  *)
(* starts at base_accuracy; a model qualifies when its combined accuracy   *)
(* is at least the floor and its train/test gap is below 0.05, which       *)
(* raises the floor to its combined accuracy; the report returned is that  *)
(* of the last model to qualify, with its metrics and the model itself, or *)
(* None when no model qualified.                                           *)
(***************************************************************************)
IsEvaluation == call.op = "evaluate_regression_model"

Fraction(num, den) == [num |-> num, den |-> den]

RECURSIVE Gcd(_, _)
Gcd(a, b) == IF b = 0 THEN a ELSE Gcd(b, a % b)

Reduced(f) == LET g == Gcd(f.num, f.den) IN Fraction(f.num \div g, f.den \div g)

\* x >= y for fractions with positive denominators
AtLeast(x, y) == x.num * y.den >= y.num * x.den

\* x < y for fractions with positive denominators
Below(x, y) == x.num * y.den < y.num * x.den

Abs(n) == IF n < 0 THEN -n ELSE n

\* 2*train_acc*test_acc/(train_acc + test_acc), in units of 1/AccDen
HarmonicMean(train_acc, test_acc) ==
    Reduced(Fraction(2 * (train_acc * test_acc), train_acc + test_acc))

MaxTrainTestGap == Fraction(1, 20)

Qualifies(model, floor) ==
    /\ AtLeast(HarmonicMean(model.train_acc, model.test_acc), floor)
    /\ Below(Fraction(Abs(model.test_acc - model.train_acc), AccDen), MaxTrainTestGap)

RECURSIVE LastQualifying(_, _, _, _)
\* The position of the last model of model_list[i..] to qualify against the
\* running floor, or last when there is none.
LastQualifying(model_list, i, floor, last) ==
    IF i > Len(model_list) THEN last
    ELSE IF Qualifies(model_list[i], floor)
         THEN LastQualifying(model_list, i + 1,
                             HarmonicMean(model_list[i].train_acc, model_list[i].test_acc), i)
         ELSE LastQualifying(model_list, i + 1, floor, last)

LastQualified ==
    LastQualifying(call.args.model_list, 1, Fraction(call.args.base_accuracy, 1), 0)

AllFitted == \A i \in 1..Len(call.args.model_list) : call.args.model_list[i].fitted

\* C6: the evaluation returns the report of the last model to qualify, with
\* its metrics and the model itself, or None when no model qualified.
C6_ReportOfLastQualifying ==
    (IsEvaluation /\ AllFitted) =>
        /\ Returned
        /\ IF LastQualified = 0 THEN call.ret.value = None
           ELSE LET model == call.args.model_list[LastQualified]
                    report == call.ret.value
                IN /\ report.kind = "MetricInfoArtifact"
                   /\ report.model_name = model.name
                   /\ report.train_accuracy = model.train_acc
                   /\ report.test_accuracy = model.test_acc
                   /\ report.train_rmse = model.train_rmse
                   /\ report.test_rmse = model.test_rmse
                   /\ report.model_accuracy = HarmonicMean(model.train_acc, model.test_acc)
                   /\ report.model_object = model

====
